---- MODULE Spec2Model ----
(***************************************************************************)
(* GeneChain: the block allocator (services/cache/base.py Memory), the     *)
(* resource store (services/cache/manager.py SingleMemoryManager) and the  *)
(* per-kind request scheduler (services/dispatch/queue.py Scheduler,       *)
(* services/dispatch/base.py Scheduler) with the caller side of a request  *)
(* (services/external_services/syscall.py).                                *)
(*                                                                         *)
(* The subsystems do not share state, so each has its own specification    *)
(* over the same variables: SpecMem (one Memory block, calls one at a      *)
(* time), SpecRace (threads inside Memory.mem_alloc at the same time),     *)
(* SpecStore (SingleMemoryManager), SpecUmm (UniformedMemoryManager of     *)
(* services/cache/memory.py) and SpecSched (the scheduler workers).        *)
(* SpecSchedFair, SpecSchedOne and SpecSchedStop add fairness of the       *)
(* worker threads to SpecSched; SpecSchedRestart adds callers of start()   *)
(* on a running scheduler. SpecMemAny is SpecMem with callers that clear   *)
(* any range; SpecStoreRace is the store written from several threads;     *)
(* SpecRun is the thread of UniformedMemoryManager; SpecExec is            *)
(* SyscallExecutor; SpecTool is ToolManager (utils/manager.py); SpecFactory *)
(* is AgentFactory (services/external_services/factory.py).                *)
(***************************************************************************)
EXTENDS Integers, Sequences, FiniteSets, Bags, TLC

(***************************************************************************)
(* Bounds of the model.                                                    *)
(***************************************************************************)
\* Memory(size): the capacity of the one block the model allocates from
Capacity == 3
\* how many allocations may be live at once (only zero-length allocations
\* can exceed Capacity live ranges)
MaxLive == 2
\* threads that call Memory.mem_alloc on the same block, and calls per thread
NThreads == 2
MaxCalls == 2
\* SingleMemoryManager(memory_limit, ...): the largest capacity the model builds
MaxLimit == 3
\* the last value time.time() reaches in the model
MaxClock == 1
\* requests submitted to the scheduler
MaxReq == 3
\* the longest free list a caller that clears any range at all may build
MaxFree == 3
\* callers of SyscallExecutor.handle_concurrent_requests, each issuing its
\* requests one at a time
NCallers == 1
\* UniformedMemoryManager(max_memory_block_size, memory_block_num)
BlockSize == 2
NBlocks == 2

VARIABLES
    \* ---- Memory (base.py) ----
    free_blocks,    \* Memory.free_blocks: list of (start, end), end inclusive
    live,           \* history: bag of <<start, size>> returned by mem_alloc and not yet cleared
    mem_ret,        \* history: outcome of the last Memory call
    \* ---- threads inside Memory.mem_alloc (base.py) ----
    th,             \* per thread: where it is in mem_alloc and its locals
    returned,       \* history: <<thread, call, start, size>> of every mem_alloc that returned
    \* ---- SingleMemoryManager (manager.py) ----
    memory_limit,   \* SingleMemoryManager.memory_limit
    eviction_k,     \* SingleMemoryManager.eviction_k
    memory_store,   \* SingleMemoryManager.memory_store: the dict, in its insertion order
    now,            \* the value time.time() returns
    evicted,        \* history: the keys the last request evicted
    store_ret,      \* history: the last read or delete request and what it returned
    \* ---- Scheduler (queue.py, base.py) and the caller of a request (syscall.py) ----
    impl,           \* which Scheduler class runs: "queue" (queue.py) or "base" (base.py)
    active,         \* Scheduler.active
    start_ret,      \* history: how the last call of start() ended
    stopper,        \* where the thread that calls stop() is
    wpc,            \* per kind: where the worker thread is in run_<kind>_syscall
    wcur,           \* per kind: the request the worker holds (0: none)
    queue,          \* per kind: the request queue that get_<kind>_syscall reads
    req,            \* per request: the fields of the syscall object
    cpc,            \* per request: where its caller is in _syscall_execution_workflow
    response_queue, \* per kind: base.py llm_queue, memory_queue, storage_queue, tool_queue
    enqLog,         \* history, per kind: the requests in the order they were enqueued
    startLog,       \* history, per kind: the requests in the order the worker took them
    doneLog,        \* history, per kind: the requests in the order they were set "done"
    raised,         \* history: the requests whose handler raised
    \* ---- UniformedMemoryManager (memory.py) ----
    memory_blocks,      \* per block id: Memory.free_blocks of that block
    free_memory_blocks, \* the heap of free block ids, smallest first
    aid_to_memory,      \* per agent id: its allocation record, or NoRecord
    umm_ret,            \* history: the last call and how it ended
    \* ---- SyscallExecutor (syscall.py) ----
    active_syscalls,    \* the dict, in insertion order: the status of each entry
    xpc,                \* per caller: where it is in handle_concurrent_requests
    xreq,               \* per caller: syscall_type, task_id and attempt of its call
    xcalls,             \* history, per caller: calls of _execute_syscall for its request
    xret,               \* history, per caller: what its last call returned
    \* ---- ToolManager (utils/manager.py) ----
    tool_conflict_map,    \* the keys of ToolManager.tool_conflict_map
    tool_instances_cache, \* the keys of ToolManager.tool_instances_cache
    tool_ret,             \* history: the tool of the last request and how it was answered
    \* ---- callers of one SingleMemoryManager on several threads ----
    sw_pc,                \* per writer: where it is in write_memory
    sw_key,               \* per writer: the key it is writing
    \* ---- the thread of UniformedMemoryManager (run) ----
    memory_operation_queue,
    umm_active,           \* self.active
    umm_thread,           \* "unstarted", "alive", "dead" (an exception left run) or "finished"
    umm_last,             \* history: the last request run took and the error it raised
    \* ---- AgentFactory (external_services/factory.py) ----
    current_agents,       \* the keys of the dict, in insertion order
    current_agents_lock,  \* "free" or the thread that holds it
    terminate_signal,
    fpc,                  \* per thread: where it is in the factory
    farg,                 \* per thread: the agent name of the call it is in
    fback,                \* per thread: where deactivate_agent returns to
    fpending              \* per thread: what is left of list(self.current_agents)

memVars == <<free_blocks, live, mem_ret>>

raceVars == <<th, returned>>

storeVars == <<memory_limit, eviction_k, memory_store, now, evicted, store_ret>>

schedVars == <<impl, active, start_ret, stopper, wpc, wcur, queue, req, cpc,
               response_queue, enqLog, startLog, doneLog, raised>>

ummVars == <<memory_blocks, free_memory_blocks, aid_to_memory, umm_ret>>

execVars == <<active_syscalls, xpc, xreq, xcalls, xret>>

toolVars == <<tool_conflict_map, tool_instances_cache, tool_ret>>

writerVars == <<sw_pc, sw_key>>

runVars == <<memory_operation_queue, umm_active, umm_thread, umm_last>>

factoryVars == <<current_agents, current_agents_lock, terminate_signal, fpc, farg,
                 fback, fpending>>

vars == <<free_blocks, live, mem_ret, th, returned,
          memory_limit, eviction_k, memory_store, now, evicted, store_ret,
          impl, active, start_ret, stopper, wpc, wcur, queue, req, cpc, response_queue,
          enqLog, startLog, doneLog, raised,
          memory_blocks, free_memory_blocks, aid_to_memory, umm_ret,
          active_syscalls, xpc, xreq, xcalls, xret,
          tool_conflict_map, tool_instances_cache, tool_ret,
          sw_pc, sw_key,
          memory_operation_queue, umm_active, umm_thread, umm_last,
          current_agents, current_agents_lock, terminate_signal, fpc, farg, fback, fpending>>

(***************************************************************************)
(* Memory: services/cache/base.py                                          *)
(***************************************************************************)
\* the sizes a caller asks for: nothing, something that fits, more than the block
Sizes == 0 .. (Capacity + 1)

RemoveAt(s, i) == SubSeq(s, 1, i - 1) \o SubSeq(s, i + 1, Len(s))

\* tuple comparison of Python: (a, b) <= (c, d)
TupleLeq(x, y) == x[1] < y[1] \/ (x[1] = y[1] /\ x[2] <= y[2])

RECURSIVE InsertSorted(_, _)
InsertSorted(s, x) ==
    IF s = <<>> THEN <<x>>
    ELSE IF TupleLeq(Head(s), x) THEN <<Head(s)>> \o InsertSorted(Tail(s), x)
    ELSE <<x>> \o s

\* list.sort() on a list of tuples
RECURSIVE ListSort(_)
ListSort(s) ==
    IF s = <<>> THEN <<>>
    ELSE InsertSorted(ListSort(SubSeq(s, 1, Len(s) - 1)), s[Len(s)])

\* a loop that keeps the last range that fits instead of the first
LastFit(free, size, i) ==
    LET F == {j \in i .. Len(free) : free[j][2] - free[j][1] + 1 >= size}
    IN  IF F = {} THEN 0 ELSE CHOOSE j \in F : \A m \in F : m <= j

\* the for loop of mem_alloc: index of the first range with block_size >= size, 0 if none
RECURSIVE FirstFit(_, _, _)
FirstFit(free, size, i) ==
    IF i > Len(free) THEN 0
    ELSE IF free[i][2] - free[i][1] + 1 >= size THEN i
    ELSE FirstFit(free, size, i + 1)

\* the free list mem_alloc leaves when range i fits
TakeFrom(free, i, size) ==
    LET start == free[i][1]
        end == free[i][2]
        allocated_end == start + size - 1
    IN  IF allocated_end = end
        THEN RemoveAt(free, i)
        ELSE [free EXCEPT ![i] = <<allocated_end + 1, end>>]

\* Memory.mem_alloc(size), one call run to its end
mem_alloc(size) ==
    LET i == FirstFit(free_blocks, size, 1) IN
    IF i = 0
    THEN /\ mem_ret' = [op |-> "alloc", size |-> size, ok |-> FALSE, addr |-> -1]
         /\ UNCHANGED <<free_blocks, live>>
    ELSE /\ free_blocks' = TakeFrom(free_blocks, i, size)
         /\ live' = live (+) SetToBag({<<free_blocks[i][1], size>>})
         /\ mem_ret' = [op |-> "alloc", size |-> size, ok |-> TRUE, addr |-> free_blocks[i][1]]

\* mem_clear without its sort()
ClearedListNoSort(free, start, size) ==
    Append(free, <<start, start + size - 1>>)

\* the free list after Memory.mem_clear(start, size)
ClearedList(free, start, size) ==
    LET allocated_end == start + size - 1
    IN  ListSort(Append(free, <<start, allocated_end>>))

\* Memory.mem_clear(start, size) of a range an earlier mem_alloc returned
mem_clear(start, size) ==
    /\ free_blocks' = ClearedList(free_blocks, start, size)
    /\ live' = live (-) SetToBag({<<start, size>>})
    /\ mem_ret' = [op |-> "clear", size |-> size, ok |-> TRUE, addr |-> start]

MemAlloc ==
    /\ BagCardinality(live) < MaxLive
    /\ \E size \in Sizes : mem_alloc(size)
    /\ UNCHANGED <<raceVars, storeVars, schedVars, ummVars, execVars, toolVars, writerVars,
                 runVars, factoryVars>>

MemClear ==
    /\ \E x \in BagToSet(live) : mem_clear(x[1], x[2])
    /\ UNCHANGED <<raceVars, storeVars, schedVars, ummVars, execVars, toolVars, writerVars,
                 runVars, factoryVars>>

\* Memory.mem_clear(start, size) of any range inside the block, allocated or not
MemClearAny ==
    /\ Len(free_blocks) < MaxFree
    /\ \E start \in 0 .. (Capacity - 1) : \E size \in 1 .. (Capacity - start) :
          mem_clear(start, size)
    /\ UNCHANGED <<raceVars, storeVars, schedVars, ummVars, execVars, toolVars, writerVars,
                 runVars, factoryVars>>

MemInit ==
    /\ free_blocks = <<<<0, Capacity - 1>>>>
    /\ live = EmptyBag
    /\ mem_ret = [op |-> "init", size |-> 0, ok |-> TRUE, addr |-> 0]

(***************************************************************************)
(* Memory.mem_alloc entered by several threads. Memory has no lock of its  *)
(* own (base.py 15-48), so a thread switch may fall between any two        *)
(* bytecodes: between the loop reading free_blocks[i] and the pop(i) or    *)
(* the item assignment that follows it.                                    *)
(***************************************************************************)
Threads == 1 .. NThreads

RaceSizes == 1 .. Capacity

IdleThread == [pc |-> "idle", size |-> 0, i |-> 0, start |-> 0, end |-> 0, calls |-> 0]

\* a thread enters mem_alloc(size): enumerate() starts at the first element
ThreadCall(t) ==
    /\ th[t].pc = "idle"
    /\ th[t].calls < MaxCalls
    /\ \E size \in RaceSizes :
          th' = [th EXCEPT ![t] = [pc |-> "loop", size |-> size, i |-> 1, start |-> 0,
                                   end |-> 0, calls |-> th[t].calls + 1]]
    /\ UNCHANGED <<free_blocks, returned, live, mem_ret, storeVars, schedVars, ummVars, execVars, toolVars, writerVars,
                 runVars, factoryVars>>

\* one step of "for i, (start, end) in enumerate(self.free_blocks)" with the
\* test of line 24; the iterator ends when i is past the list as it is now
ThreadIterate(t) ==
    /\ th[t].pc = "loop"
    /\ IF th[t].i > Len(free_blocks)
       THEN th' = [th EXCEPT ![t].pc = "idle"]                       \* raise MemoryError
       ELSE LET b == free_blocks[th[t].i] IN
            IF b[2] - b[1] + 1 >= th[t].size
            THEN th' = [th EXCEPT ![t].pc = "fit", ![t].start = b[1], ![t].end = b[2]]
            ELSE th' = [th EXCEPT ![t].i = th[t].i + 1]
    /\ UNCHANGED <<free_blocks, returned, live, mem_ret, storeVars, schedVars, ummVars, execVars, toolVars, writerVars,
                 runVars, factoryVars>>

\* lines 25-31: pop(i) or free_blocks[i] = ..., on the list as it is now, then return
ThreadCommit(t) ==
    /\ th[t].pc = "fit"
    /\ LET i == th[t].i
           allocated_end == th[t].start + th[t].size - 1
       IN  IF i > Len(free_blocks)
           THEN /\ UNCHANGED <<free_blocks, returned>>              \* IndexError
           ELSE /\ free_blocks' =
                     IF allocated_end = th[t].end
                     THEN RemoveAt(free_blocks, i)
                     ELSE [free_blocks EXCEPT ![i] = <<allocated_end + 1, th[t].end>>]
                /\ returned' = returned \cup {<<t, th[t].calls, th[t].start, th[t].size>>}
    /\ th' = [th EXCEPT ![t].pc = "idle"]
    /\ UNCHANGED <<live, mem_ret, storeVars, schedVars, ummVars, execVars, toolVars, writerVars,
                 runVars, factoryVars>>

RaceInit ==
    /\ th = [t \in Threads |-> IdleThread]
    /\ returned = {}

(***************************************************************************)
(* SingleMemoryManager: services/cache/manager.py                          *)
(* memory_store is a dict: it iterates in insertion order, assigning to a  *)
(* key that is present keeps the key's place, a new key goes last. An      *)
(* entry is [key, value, timestamp] as in the code, and inserted_at, the   *)
(* time its key entered the dict (history).                                *)
(***************************************************************************)
Keys == {"a", "b", "c", "d"}

Values == {1}

Policies == {"LRU", "FIFO"}

StoreKeys(store) == {store[i].key : i \in 1 .. Len(store)}

IndexOf(store, key) == CHOOSE i \in 1 .. Len(store) : store[i].key = key

\* min(self.memory_store, key=...timestamp): the first entry, in iteration
\* order, whose timestamp no other entry is below
MinTimestampIndex(store) ==
    CHOOSE i \in 1 .. Len(store) :
        /\ \A j \in 1 .. Len(store) : store[i].timestamp <= store[j].timestamp
        /\ \A j \in 1 .. i - 1 : store[j].timestamp > store[i].timestamp

\* evict_lru drops the newest entry instead of the oldest
evict_lru_newest(store) ==
    IF store # <<>>
    THEN RemoveAt(store,
                  CHOOSE i \in 1 .. Len(store) :
                      \A j \in 1 .. Len(store) : store[i].timestamp >= store[j].timestamp)
    ELSE store

\* evict_lru
evict_lru(store) ==
    IF store # <<>> THEN RemoveAt(store, MinTimestampIndex(store)) ELSE store

\* evict_fifo: next(iter(self.memory_store))
evict_fifo(store) ==
    IF store # <<>> THEN RemoveAt(store, 1) ELSE store

\* evict_memory: a policy that is neither LRU nor FIFO evicts nothing
evict_memory(store, policy) ==
    IF policy = "LRU" THEN evict_lru(store)
    ELSE IF policy = "FIFO" THEN evict_fifo(store)
    ELSE store

\* self.memory_store[key] = {"value": value, "timestamp": time.time()}
DictSet(store, key, value, t) ==
    IF key \in StoreKeys(store)
    THEN [store EXCEPT ![IndexOf(store, key)].value = value,
                       ![IndexOf(store, key)].timestamp = t]
    ELSE Append(store, [key |-> key, value |-> value, timestamp |-> t, inserted_at |-> t])

\* write_memory that never evicts
StoreAfterWriteNoEvict(store, limit, policy, key, value, t) ==
    DictSet(store, key, value, t)

\* the dict write_memory(key, value) leaves
StoreAfterWrite(store, limit, policy, key, value, t) ==
    DictSet(IF Len(store) >= limit THEN evict_memory(store, policy) ELSE store,
            key, value, t)

\* the keys a write removed from the dict
EvictedBy(store, after) == StoreKeys(store) \ StoreKeys(after)

\* store_ret after a request that is neither a read nor a delete
NoReturn == [op |-> "none", key |-> "none", present |-> FALSE, result |-> 0]

write_memory(key, value) ==
    /\ memory_store' = StoreAfterWrite(memory_store, memory_limit, eviction_k, key, value, now)
    /\ evicted' = EvictedBy(memory_store, memory_store')
    /\ store_ret' = NoReturn
    /\ UNCHANGED <<memory_limit, eviction_k, now>>

\* what read_memory(key) returns: the value, or None (here 0) for a key that
\* is absent (and for a value that is falsy, which Values does not hold)
ReadResult(store, key) ==
    IF key \in StoreKeys(store) THEN store[IndexOf(store, key)].value ELSE 0

\* what delete_memory(key) returns: it has no return statement, so None (here 0)
\* whether the key was there or not
DeleteResult(store, key) == 0

\* read_memory changes nothing in the manager
read_memory(key) ==
    /\ evicted' = {}
    /\ store_ret' = [op |-> "read", key |-> key, present |-> key \in StoreKeys(memory_store),
                     result |-> ReadResult(memory_store, key)]
    /\ UNCHANGED <<memory_limit, eviction_k, memory_store, now>>

delete_memory(key) ==
    /\ memory_store' = IF key \in StoreKeys(memory_store)
                       THEN RemoveAt(memory_store, IndexOf(memory_store, key))
                       ELSE memory_store
    /\ evicted' = {}
    /\ store_ret' = [op |-> "delete", key |-> key, present |-> key \in StoreKeys(memory_store),
                     result |-> DeleteResult(memory_store, key)]
    /\ UNCHANGED <<memory_limit, eviction_k, now>>

update_memory(key, value) ==
    /\ memory_store' =
          IF key \in StoreKeys(memory_store)
          THEN [memory_store EXCEPT ![IndexOf(memory_store, key)].value = value,
                                    ![IndexOf(memory_store, key)].timestamp = now]
          ELSE StoreAfterWrite(memory_store, memory_limit, eviction_k, key, value, now)
    /\ evicted' = EvictedBy(memory_store, memory_store')
    /\ store_ret' = NoReturn
    /\ UNCHANGED <<memory_limit, eviction_k, now>>

\* address_request with action "write", "read", "delete", "update"
WriteMemory ==
    /\ \E key \in Keys, value \in Values : write_memory(key, value)
    /\ UNCHANGED <<memVars, raceVars, schedVars, ummVars, execVars, toolVars, writerVars,
                 runVars, factoryVars>>

ReadMemory ==
    /\ \E key \in Keys : read_memory(key)
    /\ UNCHANGED <<memVars, raceVars, schedVars, ummVars, execVars, toolVars, writerVars,
                 runVars, factoryVars>>

DeleteMemory ==
    /\ \E key \in Keys : delete_memory(key)
    /\ UNCHANGED <<memVars, raceVars, schedVars, ummVars, execVars, toolVars, writerVars,
                 runVars, factoryVars>>

UpdateMemory ==
    /\ \E key \in Keys, value \in Values : update_memory(key, value)
    /\ UNCHANGED <<memVars, raceVars, schedVars, ummVars, execVars, toolVars, writerVars,
                 runVars, factoryVars>>

\* time passes between two requests
Tick ==
    /\ now < MaxClock
    /\ now' = now + 1
    /\ store_ret' = NoReturn
    /\ UNCHANGED <<memory_limit, eviction_k, memory_store, evicted,
                   memVars, raceVars, schedVars, ummVars, execVars, toolVars, writerVars,
                 runVars, factoryVars>>

\* a manager the specification does not run
StoreIdle ==
    /\ memory_limit = 1
    /\ eviction_k = "LRU"
    /\ memory_store = <<>>
    /\ now = 0
    /\ evicted = {}
    /\ store_ret = NoReturn

StoreInit ==
    /\ memory_limit \in 1 .. MaxLimit
    /\ eviction_k \in Policies
    /\ memory_store = <<>>
    /\ now = 0
    /\ evicted = {}
    /\ store_ret = NoReturn

(***************************************************************************)
(* The scheduler: services/dispatch/queue.py Scheduler and FIFOScheduler   *)
(* (their run_<kind>_syscall methods are the same text) and                *)
(* services/dispatch/base.py Scheduler; the caller of a request:           *)
(* services/external_services/syscall.py _syscall_execution_workflow.      *)
(* One worker thread per kind. Every statement of a worker that another    *)
(* thread can observe is a step of its own.                                *)
(***************************************************************************)
\* run_llm_syscall, run_memory_syscall, run_storage_syscall and run_tool_syscall
\* are the same text up to the manager they call and share nothing but
\* self.active; the model runs the workers of two of the four kinds
Kinds == {"memory", "storage"}

Reqs == 1 .. MaxReq

Impls == {"queue", "base"}

\* a request that no caller has constructed yet
NotConstructed ==
    [kind |-> "none", status |-> "none", response |-> "none", error |-> "none",
     event |-> FALSE, start_time |-> FALSE, end_time |-> FALSE]

\* the syscall object as its constructor leaves it
NewSyscall(k) ==
    [kind |-> k, status |-> "created", response |-> "none", error |-> "none",
     event |-> FALSE, start_time |-> FALSE, end_time |-> FALSE]

\* ---- the caller: _syscall_execution_workflow ----
\* Syscall(agent_name, query) in _<kind>_syscall_exec. What a caller does before
\* start() is local to it, so the model lets one caller at a time be there.
Construct(r) ==
    /\ cpc[r] = "none"
    /\ \A q \in Reqs : cpc[q] \notin {"new", "active"}
    /\ \A q \in Reqs : q < r => cpc[q] # "none"
    /\ \E k \in Kinds : req' = [req EXCEPT ![r] = NewSyscall(k)]
    /\ cpc' = [cpc EXCEPT ![r] = "new"]
    /\ UNCHANGED <<impl, start_ret, active, stopper, wpc, wcur, queue, response_queue,
                   enqLog, startLog, doneLog, raised, memVars, raceVars, storeVars, ummVars, execVars, toolVars, writerVars,
                 runVars, factoryVars>>

\* syscall.set_status("active")
SetActive(r) ==
    /\ cpc[r] = "new"
    /\ req' = [req EXCEPT ![r].status = "active"]
    /\ cpc' = [cpc EXCEPT ![r] = "active"]
    /\ UNCHANGED <<impl, start_ret, active, stopper, wpc, wcur, queue, response_queue,
                   enqLog, startLog, doneLog, raised, memVars, raceVars, storeVars, ummVars, execVars, toolVars, writerVars,
                 runVars, factoryVars>>

\* syscall.start(): the request goes to the end of the queue of its kind
StartSyscall(r) ==
    /\ cpc[r] = "active"
    /\ queue' = [queue EXCEPT ![req[r].kind] = Append(@, r)]
    /\ enqLog' = [enqLog EXCEPT ![req[r].kind] = Append(@, r)]
    /\ cpc' = [cpc EXCEPT ![r] = "waiting"]
    /\ UNCHANGED <<impl, start_ret, active, stopper, wpc, wcur, req, response_queue,
                   startLog, doneLog, raised, memVars, raceVars, storeVars, ummVars, execVars, toolVars, writerVars,
                 runVars, factoryVars>>

\* ---- Scheduler.start and Scheduler.stop ----
\* the first thread of request_processors.items()
FirstKind == "memory"

\* thread_value.start(): a Thread object starts once; start() of a thread that
\* was started before raises RuntimeError and leaves the thread as it is
ThreadStartAgain(pc) == [pc |-> "top", raises |-> FALSE]

ThreadStart(pc) ==
    IF pc = "unstarted" THEN [pc |-> "top", raises |-> FALSE]
                        ELSE [pc |-> pc, raises |-> TRUE]

\* start(): self.active = True, then thread_value.start() for each thread; the
\* first start() that raises ends the call
start ==
    /\ active' = TRUE
    /\ IF ThreadStart(wpc[FirstKind]).raises
       THEN /\ wpc' = [wpc EXCEPT ![FirstKind] = ThreadStart(wpc[FirstKind]).pc]
            /\ start_ret' = "RuntimeError"
       ELSE /\ wpc' = [k \in Kinds |-> ThreadStart(wpc[k]).pc]
            /\ start_ret' = "started"
    /\ UNCHANGED <<impl, stopper, wcur, queue, req, cpc, response_queue,
                   enqLog, startLog, doneLog, raised, memVars, raceVars, storeVars, ummVars, execVars, toolVars, writerVars,
                 runVars, factoryVars>>

\* start() on a scheduler that was never started
Start ==
    /\ \A k \in Kinds : wpc[k] = "unstarted"
    /\ start

\* start() on a scheduler that is running
StartRunning ==
    /\ active
    /\ start

\* stop(): self.active = False, then the joins begin
Stop ==
    /\ active
    /\ stopper = "idle"
    /\ active' = FALSE
    /\ stopper' = "joining"
    /\ UNCHANGED <<impl, start_ret, wpc, wcur, queue, req, cpc, response_queue,
                   enqLog, startLog, doneLog, raised, memVars, raceVars, storeVars, ummVars, execVars, toolVars, writerVars,
                 runVars, factoryVars>>

\* stop(): every thread_value.join() has returned
StopReturn ==
    /\ stopper = "joining"
    /\ \A k \in Kinds : wpc[k] = "exit"
    /\ stopper' = "returned"
    /\ UNCHANGED <<impl, start_ret, active, wpc, wcur, queue, req, cpc, response_queue,
                   enqLog, startLog, doneLog, raised, memVars, raceVars, storeVars, ummVars, execVars, toolVars, writerVars,
                 runVars, factoryVars>>

\* ---- a worker: run_<kind>_syscall ----
\* get_<kind>_syscall(): the oldest request of the queue
QueueGetNewest(q) == [item |-> q[Len(q)], rest |-> SubSeq(q, 1, Len(q) - 1)]

QueueGet(q) == [item |-> Head(q), rest |-> Tail(q)]

\* the status the worker gives a request it has taken
StatusOnDequeueDone == "done"

StatusOnDequeue == "executing"

\* where the worker is after its handler raised: "except Exception" is inside
\* the while loop (queue.py) and inside process_<kind>_request (base.py)
AfterRaiseDead(im) == "dead"

AfterRaise(im) == "top"

\* where the worker goes when get_<kind>_syscall() found nothing within its
\* timeout: "except Empty" ends the iteration
OnEmptyBlock == "get"

OnEmpty == "top"

\* the workers whose handler call keeps the handler call of worker k waiting:
\* run_<kind>_syscall takes no lock and waits for no other thread
HandlerExcludesOthers(k) == Kinds \ {k}

HandlerExcludes(k) == {}

\* no worker that excludes worker k is inside its handler
HandlerFree(k) == \A j \in HandlerExcludes(k) : wpc[j] \notin {"call", "process"}

\* while self.active
WTop(k) ==
    /\ wpc[k] = "top"
    /\ wpc' = [wpc EXCEPT ![k] = IF active THEN "get" ELSE "exit"]
    /\ UNCHANGED <<impl, start_ret, active, stopper, wcur, queue, req, cpc, response_queue,
                   enqLog, startLog, doneLog, raised, memVars, raceVars, storeVars, ummVars, execVars, toolVars, writerVars,
                 runVars, factoryVars>>

\* get_<kind>_syscall(): a request, or Empty after the timeout ("pass" in queue.py,
\* sleep(0.1) in base.py) and back to the loop test
WGet(k) ==
    /\ wpc[k] = "get"
    /\ IF queue[k] = <<>>
       THEN /\ wpc' = [wpc EXCEPT ![k] = OnEmpty]
            /\ UNCHANGED <<wcur, queue>>
       ELSE /\ wcur' = [wcur EXCEPT ![k] = QueueGet(queue[k]).item]
            /\ queue' = [queue EXCEPT ![k] = QueueGet(queue[k]).rest]
            /\ wpc' = [wpc EXCEPT ![k] = IF impl = "queue" THEN "set_executing" ELSE "process"]
    /\ UNCHANGED <<impl, start_ret, active, stopper, req, cpc, response_queue,
                   enqLog, startLog, doneLog, raised, memVars, raceVars, storeVars, ummVars, execVars, toolVars, writerVars,
                 runVars, factoryVars>>

\* queue.py: syscall.set_status("executing"), logger.log(...)
WSetExecuting(k) ==
    /\ wpc[k] = "set_executing"
    /\ req' = [req EXCEPT ![wcur[k]].status = StatusOnDequeue]
    /\ startLog' = [startLog EXCEPT ![k] = Append(@, wcur[k])]
    /\ wpc' = [wpc EXCEPT ![k] = "set_start"]
    /\ UNCHANGED <<impl, start_ret, active, stopper, wcur, queue, cpc, response_queue,
                   enqLog, doneLog, raised, memVars, raceVars, storeVars, ummVars, execVars, toolVars, writerVars,
                 runVars, factoryVars>>

\* queue.py: syscall.set_start_time(time.time())
WSetStart(k) ==
    /\ wpc[k] = "set_start"
    /\ req' = [req EXCEPT ![wcur[k]].start_time = TRUE]
    /\ wpc' = [wpc EXCEPT ![k] = "call"]
    /\ UNCHANGED <<impl, start_ret, active, stopper, wcur, queue, cpc, response_queue,
                   enqLog, startLog, doneLog, raised, memVars, raceVars, storeVars, ummVars, execVars, toolVars, writerVars,
                 runVars, factoryVars>>

\* queue.py: response = self.<manager>.address_request(syscall); it returns, or
\* it raises and "except Exception: traceback.print_exc()" ends the iteration
WCall(k) ==
    /\ wpc[k] = "call"
    /\ HandlerFree(k)
    /\ \/ /\ wpc' = [wpc EXCEPT ![k] = "set_response"]
          /\ UNCHANGED <<wcur, raised>>
       \/ /\ wpc' = [wpc EXCEPT ![k] = AfterRaise(impl)]
          /\ raised' = raised \cup {wcur[k]}
          /\ wcur' = [wcur EXCEPT ![k] = 0]
    /\ UNCHANGED <<impl, start_ret, active, stopper, queue, req, cpc, response_queue,
                   enqLog, startLog, doneLog, memVars, raceVars, storeVars, ummVars, execVars, toolVars, writerVars,
                 runVars, factoryVars>>

\* queue.py: syscall.set_response(response)
WSetResponse(k) ==
    /\ wpc[k] = "set_response"
    /\ req' = [req EXCEPT ![wcur[k]].response = "response"]
    /\ wpc' = [wpc EXCEPT ![k] = "event_set"]
    /\ UNCHANGED <<impl, start_ret, active, stopper, wcur, queue, cpc, response_queue,
                   enqLog, startLog, doneLog, raised, memVars, raceVars, storeVars, ummVars, execVars, toolVars, writerVars,
                 runVars, factoryVars>>

\* queue.py: syscall.event.set()
WEventSet(k) ==
    /\ wpc[k] = "event_set"
    /\ req' = [req EXCEPT ![wcur[k]].event = TRUE]
    /\ wpc' = [wpc EXCEPT ![k] = "set_done"]
    /\ UNCHANGED <<impl, start_ret, active, stopper, wcur, queue, cpc, response_queue,
                   enqLog, startLog, doneLog, raised, memVars, raceVars, storeVars, ummVars, execVars, toolVars, writerVars,
                 runVars, factoryVars>>

\* queue.py: syscall.set_status("done")
WSetDone(k) ==
    /\ wpc[k] = "set_done"
    /\ req' = [req EXCEPT ![wcur[k]].status = "done"]
    /\ doneLog' = [doneLog EXCEPT ![k] = Append(@, wcur[k])]
    /\ wpc' = [wpc EXCEPT ![k] = "set_end"]
    /\ UNCHANGED <<impl, start_ret, active, stopper, wcur, queue, cpc, response_queue,
                   enqLog, startLog, raised, memVars, raceVars, storeVars, ummVars, execVars, toolVars, writerVars,
                 runVars, factoryVars>>

\* queue.py: syscall.set_end_time(time.time()), and the iteration ends
WSetEnd(k) ==
    /\ wpc[k] = "set_end"
    /\ req' = [req EXCEPT ![wcur[k]].end_time = TRUE]
    /\ wcur' = [wcur EXCEPT ![k] = 0]
    /\ wpc' = [wpc EXCEPT ![k] = "top"]
    /\ UNCHANGED <<impl, start_ret, active, stopper, queue, cpc, response_queue,
                   enqLog, startLog, doneLog, raised, memVars, raceVars, storeVars, ummVars, execVars, toolVars, writerVars,
                 runVars, factoryVars>>

\* base.py process_<kind>_request: response = self.<manager>.process_request(message);
\* it returns, or it raises and "except Exception as e" logs the error
WProcess(k) ==
    /\ wpc[k] = "process"
    /\ HandlerFree(k)
    /\ startLog' = [startLog EXCEPT ![k] = Append(@, wcur[k])]
    /\ \/ /\ wpc' = [wpc EXCEPT ![k] = "put"]
          /\ UNCHANGED <<wcur, raised>>
       \/ /\ wpc' = [wpc EXCEPT ![k] = AfterRaise(impl)]
          /\ raised' = raised \cup {wcur[k]}
          /\ wcur' = [wcur EXCEPT ![k] = 0]
    /\ UNCHANGED <<impl, start_ret, active, stopper, queue, req, cpc, response_queue,
                   enqLog, doneLog, memVars, raceVars, storeVars, ummVars, execVars, toolVars, writerVars,
                 runVars, factoryVars>>

\* base.py process_<kind>_request: self.<kind>_queue.put(response)
WPut(k) ==
    /\ wpc[k] = "put"
    /\ response_queue' = [response_queue EXCEPT ![k] = Append(@, wcur[k])]
    /\ wcur' = [wcur EXCEPT ![k] = 0]
    /\ wpc' = [wpc EXCEPT ![k] = "top"]
    /\ UNCHANGED <<impl, start_ret, active, stopper, queue, req, cpc,
                   enqLog, startLog, doneLog, raised, memVars, raceVars, storeVars, ummVars, execVars, toolVars, writerVars,
                 runVars, factoryVars>>

SchedIdle ==
    /\ impl = "queue"
    /\ active = FALSE
    /\ start_ret = "none"
    /\ stopper = "idle"
    /\ wpc = [k \in Kinds |-> "unstarted"]
    /\ wcur = [k \in Kinds |-> 0]
    /\ queue = [k \in Kinds |-> <<>>]
    /\ req = [r \in Reqs |-> NotConstructed]
    /\ cpc = [r \in Reqs |-> "none"]
    /\ response_queue = [k \in Kinds |-> <<>>]
    /\ enqLog = [k \in Kinds |-> <<>>]
    /\ startLog = [k \in Kinds |-> <<>>]
    /\ doneLog = [k \in Kinds |-> <<>>]
    /\ raised = {}

SchedInit ==
    /\ impl \in Impls
    /\ active = FALSE
    /\ start_ret = "none"
    /\ stopper = "idle"
    /\ wpc = [k \in Kinds |-> "unstarted"]
    /\ wcur = [k \in Kinds |-> 0]
    /\ queue = [k \in Kinds |-> <<>>]
    /\ req = [r \in Reqs |-> NotConstructed]
    /\ cpc = [r \in Reqs |-> "none"]
    /\ response_queue = [k \in Kinds |-> <<>>]
    /\ enqLog = [k \in Kinds |-> <<>>]
    /\ startLog = [k \in Kinds |-> <<>>]
    /\ doneLog = [k \in Kinds |-> <<>>]
    /\ raised = {}

(***************************************************************************)
(* UniformedMemoryManager: services/cache/memory.py. Every method holds    *)
(* self.lock from its first statement to its last, so a call is one step.  *)
(***************************************************************************)
BlockIds == 0 .. (NBlocks - 1)

Agents == {"A", "B"}

\* MemoryRequest.round_id, written as text
Rounds == {"1", "2"}

\* the contents a caller writes: compress(content) as a sequence of byte values
Contents == {<<1>>, <<1, 1>>}

\* the sizes a caller asks mem_alloc for
AllocSizes == 1 .. (BlockSize + 1)

\* an agent id that is not a key of aid_to_memory
NoRecord == [memory_block_id |-> -1, address |-> -1, size |-> -1]

\* the keys of the record mem_alloc stores for an agent
RecordKeys == {"memory_block_id", "address", "size"}

\* self.aid_to_memory[agent_id][round_id]["memory_block_id"]: KeyError for an
\* agent without a record and for a round_id that is not a key of the record;
\* for a round_id that is one, the value is an int, which cannot be indexed
RoundLookup(record, round_id) ==
    IF record = NoRecord THEN "KeyError"
    ELSE IF round_id \in RecordKeys THEN "TypeError"
    ELSE "KeyError"

\* umm_ret: the call, the record the agent held when it was made, the error it
\* raised ("none": it returned) and the address it returned
UmmReturn(op, agent, held, error, address) ==
    [op |-> op, agent |-> agent, held |-> held, error |-> error, address |-> address]

UmmInit ==
    /\ memory_blocks = [b \in BlockIds |-> <<<<0, BlockSize - 1>>>>]
    /\ free_memory_blocks = [i \in 1 .. NBlocks |-> i - 1]
    /\ aid_to_memory = [a \in Agents |-> NoRecord]
    /\ umm_ret = UmmReturn("none", "none", NoRecord, "none", -1)

\* heapq.heappop and heapq.heappush on the heap of block ids
HeapPop(h) == [item |-> Head(h), rest |-> Tail(h)]

RECURSIVE HeapPush(_, _)
HeapPush(h, x) ==
    IF h = <<>> THEN <<x>>
    ELSE IF Head(h) <= x THEN <<Head(h)>> \o HeapPush(Tail(h), x)
    ELSE <<x>> \o h

\* mem_alloc(agent_id, size): pop the smallest free block id, allocate in that
\* block, record the allocation. Memory.mem_alloc raises after the pop.
UmmAlloc ==
    /\ \E agent \in Agents, size \in AllocSizes :
          LET held == aid_to_memory[agent] IN
          IF free_memory_blocks = <<>>
          THEN /\ umm_ret' = UmmReturn("alloc", agent, held, "MemoryError", -1)
               /\ UNCHANGED <<memory_blocks, free_memory_blocks, aid_to_memory>>
          ELSE LET memory_block_id == HeapPop(free_memory_blocks).item
                   i == FirstFit(memory_blocks[memory_block_id], size, 1)
               IN  /\ free_memory_blocks' = HeapPop(free_memory_blocks).rest
                   /\ IF i = 0
                      THEN /\ umm_ret' = UmmReturn("alloc", agent, held, "MemoryError", -1)
                           /\ UNCHANGED <<memory_blocks, aid_to_memory>>
                      ELSE LET address == memory_blocks[memory_block_id][i][1] IN
                           /\ memory_blocks' =
                                 [memory_blocks EXCEPT ![memory_block_id] = TakeFrom(@, i, size)]
                           /\ aid_to_memory' =
                                 [aid_to_memory EXCEPT ![agent] =
                                     [memory_block_id |-> memory_block_id,
                                      address |-> address, size |-> size]]
                           /\ umm_ret' = UmmReturn("alloc", agent, held, "none", address)
    /\ UNCHANGED <<memVars, raceVars, storeVars, schedVars, execVars, toolVars, writerVars,
                 runVars, factoryVars>>

\* mem_clear(agent_id): drop the record and push its block id back
UmmClear ==
    /\ \E agent \in Agents :
          LET held == aid_to_memory[agent] IN
          IF held = NoRecord
          THEN /\ umm_ret' = UmmReturn("clear", agent, held, "ValueError", -1)
               /\ UNCHANGED <<memory_blocks, free_memory_blocks, aid_to_memory>>
          ELSE /\ aid_to_memory' = [aid_to_memory EXCEPT ![agent] = NoRecord]
               /\ free_memory_blocks' = HeapPush(free_memory_blocks, held.memory_block_id)
               /\ umm_ret' = UmmReturn("clear", agent, held, "none", -1)
               /\ UNCHANGED memory_blocks
    /\ UNCHANGED <<memVars, raceVars, storeVars, schedVars, execVars, toolVars, writerVars,
                 runVars, factoryVars>>

\* mem_write(agent_id, round_id, content): the lookup of its line 56 raises
\* before anything is allocated or written
UmmWrite ==
    /\ \E agent \in Agents, round_id \in Rounds, content \in Contents :
          umm_ret' = UmmReturn("write", agent, aid_to_memory[agent],
                               RoundLookup(aid_to_memory[agent], round_id), -1)
    /\ UNCHANGED <<memory_blocks, free_memory_blocks, aid_to_memory>>
    /\ UNCHANGED <<memVars, raceVars, storeVars, schedVars, execVars, toolVars, writerVars,
                 runVars, factoryVars>>

\* mem_read(agent_id, round_id): the same lookup, at its line 63
UmmRead ==
    /\ \E agent \in Agents, round_id \in Rounds :
          umm_ret' = UmmReturn("read", agent, aid_to_memory[agent],
                               RoundLookup(aid_to_memory[agent], round_id), -1)
    /\ UNCHANGED <<memory_blocks, free_memory_blocks, aid_to_memory>>
    /\ UNCHANGED <<memVars, raceVars, storeVars, schedVars, execVars, toolVars, writerVars,
                 runVars, factoryVars>>

(***************************************************************************)
(* SyscallExecutor: services/external_services/syscall.py. The statements  *)
(* of handle_concurrent_requests under self.lock are one step; each call   *)
(* of _execute_syscall by _retry_on_failure is a step.                     *)
(***************************************************************************)
MAX_RETRY_ATTEMPTS == 5

CONCURRENCY_LIMIT == 10

Callers == 1 .. NCallers

\* syscall_type: one that _execute_syscall knows, and one it does not
SyscallTypes == {"memory", "other"}

NoCall == [syscall_type |-> "none", task_id |-> 0, attempt |-> 0]

NoResult == [kind |-> "none", in_flight |-> 0]

\* the requests that are between their entry and their return
InFlight == {c \in Callers : xpc[c] # "idle"}

\* _execute_syscall: _<kind>_syscall_exec returns what _syscall_execution_workflow
\* returns, a response or {"error": ...}; an unknown syscall_type raises ValueError
ExecuteRaises(syscall_type) == syscall_type \notin {"storage", "memory", "tool", "llm"}

\* lines 148-155: reject at the limit, or enter the request under a task id
\* that random.randint chose: a new one, or one the dict already holds
XEnter(c) ==
    /\ xpc[c] = "idle"
    /\ IF Len(active_syscalls) >= CONCURRENCY_LIMIT
       THEN /\ xret' = [xret EXCEPT ![c] = [kind |-> "Concurrency limit reached",
                                           in_flight |-> Cardinality(InFlight)]]
            /\ UNCHANGED <<active_syscalls, xpc, xreq, xcalls>>
       ELSE /\ \E ty \in SyscallTypes, task_id \in 1 .. (Len(active_syscalls) + 1) :
                  /\ active_syscalls' =
                        IF task_id > Len(active_syscalls)
                        THEN Append(active_syscalls, "pending")
                        ELSE [active_syscalls EXCEPT ![task_id] = "pending"]
                  /\ xreq' = [xreq EXCEPT ![c] =
                                 [syscall_type |-> ty, task_id |-> task_id, attempt |-> 0]]
            /\ xpc' = [xpc EXCEPT ![c] = "try"]
            /\ xcalls' = [xcalls EXCEPT ![c] = 0]
            /\ xret' = [xret EXCEPT ![c] = NoResult]
    /\ UNCHANGED <<memVars, raceVars, storeVars, schedVars, ummVars, toolVars, writerVars,
                 runVars, factoryVars>>

\* _retry_on_failure: one pass of its loop, func is _execute_syscall
XExecute(c) ==
    /\ xpc[c] = "try"
    /\ xcalls' = [xcalls EXCEPT ![c] = @ + 1]
    /\ IF ExecuteRaises(xreq[c].syscall_type)
       THEN /\ xreq' = [xreq EXCEPT ![c].attempt = @ + 1]
            /\ xpc' = [xpc EXCEPT ![c] =
                          IF xreq[c].attempt + 1 < MAX_RETRY_ATTEMPTS THEN "try" ELSE "failed"]
       ELSE /\ xpc' = [xpc EXCEPT ![c] = "completed"]
            /\ UNCHANGED xreq
    /\ UNCHANGED <<active_syscalls, xret>>
    /\ UNCHANGED <<memVars, raceVars, storeVars, schedVars, ummVars, toolVars, writerVars,
                 runVars, factoryVars>>

\* lines 159-162 and 164-167: the status of the entry is set, the call returns;
\* no statement removes the entry
XFinish(c) ==
    /\ xpc[c] \in {"completed", "failed"}
    /\ active_syscalls' = [active_syscalls EXCEPT ![xreq[c].task_id] = xpc[c]]
    /\ xret' = [xret EXCEPT ![c] = [kind |-> IF xpc[c] = "completed" THEN "result" ELSE "error",
                                    in_flight |-> Cardinality(InFlight)]]
    /\ xpc' = [xpc EXCEPT ![c] = "idle"]
    /\ xreq' = [xreq EXCEPT ![c] = NoCall]
    /\ UNCHANGED xcalls
    /\ UNCHANGED <<memVars, raceVars, storeVars, schedVars, ummVars, toolVars, writerVars,
                 runVars, factoryVars>>

ExecInit ==
    /\ active_syscalls = <<>>
    /\ xpc = [c \in Callers |-> "idle"]
    /\ xreq = [c \in Callers |-> NoCall]
    /\ xcalls = [c \in Callers |-> 0]
    /\ xret = [c \in Callers |-> NoResult]

(***************************************************************************)
(* ToolManager: utils/manager.py. address_request is called by the one     *)
(* worker of the tool kind, one request at a time; it handles the first    *)
(* tool call of the request and returns.                                   *)
(***************************************************************************)
Tools == {"t1", "t2", "t3"}

\* AutoTool.from_preloaded(name): an instance, or None, or it raises (which
\* load_tool_instance turns into None)
LoadOutcomes == {"instance", "none"}

\* tool.run(params): it returns a result, or it raises
RunOutcomes == {"result", "raises"}

\* load_tool_instance: the cached instance, or what from_preloaded gave
LoadResult(cache, tool, loaded) ==
    IF tool \in cache THEN "instance" ELSE loaded

\* address_request, for a request whose first tool call names tool
ToolRequest ==
    /\ \E tool \in Tools, loaded \in LoadOutcomes, ran \in RunOutcomes :
          IF tool \in tool_conflict_map
          THEN /\ tool_ret' = [tool |-> tool, answer |-> "already being processed"]
               /\ UNCHANGED <<tool_conflict_map, tool_instances_cache>>
          ELSE IF LoadResult(tool_instances_cache, tool, loaded) = "none"
          THEN /\ tool_conflict_map' = tool_conflict_map \cup {tool}
               /\ tool_ret' = [tool |-> tool, answer |-> "Failed to load tool"]
               /\ UNCHANGED tool_instances_cache
          ELSE /\ tool_instances_cache' = tool_instances_cache \cup {tool}
               /\ IF ran = "raises"
                  THEN /\ tool_conflict_map' = tool_conflict_map \cup {tool}
                       /\ tool_ret' = [tool |-> tool, answer |-> "Tool calling error"]
                  ELSE /\ tool_conflict_map' = (tool_conflict_map \cup {tool}) \ {tool}
                       /\ tool_ret' = [tool |-> tool, answer |-> "result"]
    /\ UNCHANGED <<memVars, raceVars, storeVars, schedVars, ummVars, execVars, writerVars,
                 runVars, factoryVars>>

\* clear_tool_cache
ClearToolCache ==
    /\ tool_instances_cache' = {}
    /\ UNCHANGED <<tool_conflict_map, tool_ret>>
    /\ UNCHANGED <<memVars, raceVars, storeVars, schedVars, ummVars, execVars, writerVars,
                 runVars, factoryVars>>

ToolInit ==
    /\ tool_conflict_map = {}
    /\ tool_instances_cache = {}
    /\ tool_ret = [tool |-> "none", answer |-> "none"]

(***************************************************************************)
(* SingleMemoryManager called from several threads: services/cache/        *)
(* manager.py. The class holds no lock, so the statements of write_memory  *)
(* of one caller interleave with those of another: the test of its line    *)
(* 25, the eviction of its line 26 and the assignment of its line 27 are   *)
(* one step each.                                                          *)
(***************************************************************************)
Writers == {"w1", "w2"}

\* line 25: if len(self.memory_store) >= self.memory_limit
WriteTest(w) ==
    /\ sw_pc[w] = "idle"
    /\ \E key \in Keys :
          /\ sw_key' = [sw_key EXCEPT ![w] = key]
          /\ sw_pc' = [sw_pc EXCEPT ![w] =
                          IF Len(memory_store) >= memory_limit THEN "evict" ELSE "assign"]
    /\ UNCHANGED storeVars
    /\ UNCHANGED <<memVars, raceVars, schedVars, ummVars, execVars, toolVars, runVars,
                   factoryVars>>

\* line 26: self.evict_memory()
WriteEvict(w) ==
    /\ sw_pc[w] = "evict"
    /\ memory_store' = evict_memory(memory_store, eviction_k)
    /\ evicted' = EvictedBy(memory_store, memory_store')
    /\ sw_pc' = [sw_pc EXCEPT ![w] = "assign"]
    /\ UNCHANGED <<memory_limit, eviction_k, now, store_ret, sw_key>>
    /\ UNCHANGED <<memVars, raceVars, schedVars, ummVars, execVars, toolVars, runVars,
                   factoryVars>>

\* line 27: self.memory_store[key] = {...}
WriteAssign(w) ==
    /\ sw_pc[w] = "assign"
    /\ memory_store' = DictSet(memory_store, sw_key[w], 1, now)
    /\ evicted' = {}
    /\ sw_pc' = [sw_pc EXCEPT ![w] = "idle"]
    /\ sw_key' = [sw_key EXCEPT ![w] = "none"]
    /\ UNCHANGED <<memory_limit, eviction_k, now, store_ret>>
    /\ UNCHANGED <<memVars, raceVars, schedVars, ummVars, execVars, toolVars, runVars,
                   factoryVars>>

WriterInit ==
    /\ sw_pc = [w \in Writers |-> "idle"]
    /\ sw_key = [w \in Writers |-> "none"]

(***************************************************************************)
(* The thread of UniformedMemoryManager: services/cache/memory.py and      *)
(* services/dispatch/queue.py (start, stop, run and execute_operation are  *)
(* the same text in both).                                                 *)
(***************************************************************************)
\* the longest memory_operation_queue the callers build
MaxQueue == 2

OperationTypes == {"write", "read", "alloc"}

MemoryRequests == [operation_type : OperationTypes, agent_id : Agents, round_id : Rounds]

\* execute_operation: the error that leaves it ("none": it returns). A write
\* calls mem_write without its round_id argument; a read does the lookup of
\* mem_read; any other operation type does nothing
execute_operation(request, records) ==
    IF request.operation_type = "write" THEN "TypeError"
    ELSE IF request.operation_type = "read"
         THEN RoundLookup(records[request.agent_id], request.round_id)
    ELSE "none"

\* start()
UmmStart ==
    /\ umm_thread = "unstarted"
    /\ umm_active' = TRUE
    /\ umm_thread' = "alive"
    /\ UNCHANGED <<memory_operation_queue, umm_last>>
    /\ UNCHANGED <<memVars, raceVars, storeVars, schedVars, ummVars, execVars, toolVars,
                   writerVars, factoryVars>>

\* stop(): it clears active (and then waits in join)
UmmStop ==
    /\ umm_active
    /\ umm_active' = FALSE
    /\ UNCHANGED <<memory_operation_queue, umm_thread, umm_last>>
    /\ UNCHANGED <<memVars, raceVars, storeVars, schedVars, ummVars, execVars, toolVars,
                   writerVars, factoryVars>>

\* a caller puts a request on memory_operation_queue
UmmPut ==
    /\ Len(memory_operation_queue) < MaxQueue
    /\ \E request \in MemoryRequests :
          memory_operation_queue' = Append(memory_operation_queue, request)
    /\ UNCHANGED <<umm_active, umm_thread, umm_last>>
    /\ UNCHANGED <<memVars, raceVars, storeVars, schedVars, ummVars, execVars, toolVars,
                   writerVars, factoryVars>>

\* one turn of the loop of run: Empty is passed over, any other exception
\* leaves run and ends the thread
UmmRun ==
    /\ umm_thread = "alive"
    /\ umm_active
    /\ IF memory_operation_queue = <<>>
       THEN UNCHANGED <<memory_operation_queue, umm_thread, umm_last>>
       ELSE LET request == Head(memory_operation_queue)
                error == execute_operation(request, aid_to_memory)
            IN  /\ memory_operation_queue' = Tail(memory_operation_queue)
                /\ umm_last' = [operation_type |-> request.operation_type, error |-> error]
                /\ umm_thread' = IF error = "none" THEN "alive" ELSE "dead"
    /\ UNCHANGED umm_active
    /\ UNCHANGED <<memVars, raceVars, storeVars, schedVars, ummVars, execVars, toolVars,
                   writerVars, factoryVars>>

\* while self.active: the test fails and run returns
UmmRunExit ==
    /\ umm_thread = "alive"
    /\ ~umm_active
    /\ umm_thread' = "finished"
    /\ UNCHANGED <<memory_operation_queue, umm_active, umm_last>>
    /\ UNCHANGED <<memVars, raceVars, storeVars, schedVars, ummVars, execVars, toolVars,
                   writerVars, factoryVars>>

RunInit ==
    /\ memory_operation_queue = <<>>
    /\ umm_active = FALSE
    /\ umm_thread = "unstarted"
    /\ umm_last = [operation_type |-> "none", error |-> "none"]

(***************************************************************************)
(* AgentFactory: services/external_services/factory.py. current_agents_lock *)
(* is a threading.Lock: it is not reentrant, and acquiring it while it is  *)
(* held waits, whoever holds it.                                           *)
(***************************************************************************)
FThreads == {"m1", "m2"}

AgentNames == {"x", "y"}

\* self.current_agents[agent_name] = agent
AgentsSet(agents, name) ==
    IF \E i \in 1 .. Len(agents) : agents[i] = name THEN agents ELSE Append(agents, name)

\* self.current_agents.pop(agent_name), for a name that may be absent
AgentsPop(agents, name) ==
    SelectSeq(agents, LAMBDA n : n # name)

\* activate_agent up to its line 56: the agent is built
FActivateCall(t) ==
    /\ fpc[t] = "idle"
    /\ \E name \in AgentNames : farg' = [farg EXCEPT ![t] = name]
    /\ fpc' = [fpc EXCEPT ![t] = "activate"]
    /\ UNCHANGED <<current_agents, current_agents_lock, terminate_signal, fback, fpending>>
    /\ UNCHANGED <<memVars, raceVars, storeVars, schedVars, ummVars, execVars, toolVars,
                   writerVars, runVars>>

\* activate_agent, lines 56-59: with the lock, the assignment; the lock is
\* released when the block ends
FActivateLocked(t) ==
    /\ fpc[t] = "activate"
    /\ current_agents_lock = "free"
    /\ current_agents' = AgentsSet(current_agents, farg[t])
    /\ fpc' = [fpc EXCEPT ![t] = "idle"]
    /\ farg' = [farg EXCEPT ![t] = "none"]
    /\ UNCHANGED <<current_agents_lock, terminate_signal, fback, fpending>>
    /\ UNCHANGED <<memVars, raceVars, storeVars, schedVars, ummVars, execVars, toolVars,
                   writerVars, runVars>>

\* a caller calls deactivate_agent(name)
FDeactivateCall(t) ==
    /\ fpc[t] = "idle"
    /\ \E name \in AgentNames : farg' = [farg EXCEPT ![t] = name]
    /\ fpc' = [fpc EXCEPT ![t] = "deactivate"]
    /\ fback' = [fback EXCEPT ![t] = "idle"]
    /\ UNCHANGED <<current_agents, current_agents_lock, terminate_signal, fpending>>
    /\ UNCHANGED <<memVars, raceVars, storeVars, schedVars, ummVars, execVars, toolVars,
                   writerVars, runVars>>

\* deactivate_agent, lines 106-112: it waits for the lock, pops the agent if
\* it is there, releases the lock and returns to its caller
FDeactivateLocked(t) ==
    /\ fpc[t] = "deactivate"
    /\ current_agents_lock = "free"
    /\ current_agents' = AgentsPop(current_agents, farg[t])
    /\ fpc' = [fpc EXCEPT ![t] = fback[t]]
    /\ farg' = [farg EXCEPT ![t] = "none"]
    /\ UNCHANGED <<current_agents_lock, terminate_signal, fback, fpending>>
    /\ UNCHANGED <<memVars, raceVars, storeVars, schedVars, ummVars, execVars, toolVars,
                   writerVars, runVars>>

\* terminate, lines 122-123
FTerminateCall(t) ==
    /\ fpc[t] = "idle"
    /\ terminate_signal' = TRUE
    /\ fpc' = [fpc EXCEPT ![t] = "terminate"]
    /\ UNCHANGED <<current_agents, current_agents_lock, farg, fback, fpending>>
    /\ UNCHANGED <<memVars, raceVars, storeVars, schedVars, ummVars, execVars, toolVars,
                   writerVars, runVars>>

\* terminate, lines 124-125: it takes the lock and copies the names
FTerminateAcquire(t) ==
    /\ fpc[t] = "terminate"
    /\ current_agents_lock = "free"
    /\ current_agents_lock' = t
    /\ fpending' = [fpending EXCEPT ![t] = current_agents]
    /\ fpc' = [fpc EXCEPT ![t] = "loop"]
    /\ UNCHANGED <<current_agents, terminate_signal, farg, fback>>
    /\ UNCHANGED <<memVars, raceVars, storeVars, schedVars, ummVars, execVars, toolVars,
                   writerVars, runVars>>

\* terminate, lines 125-126: the next name goes to deactivate_agent, still
\* under the lock; after the last one the lock is released and terminate
\* returns
FTerminateNext(t) ==
    /\ fpc[t] = "loop"
    /\ IF fpending[t] = <<>>
       THEN /\ current_agents_lock' = "free"
            /\ fpc' = [fpc EXCEPT ![t] = "idle"]
            /\ UNCHANGED <<farg, fback, fpending>>
       ELSE /\ farg' = [farg EXCEPT ![t] = Head(fpending[t])]
            /\ fpending' = [fpending EXCEPT ![t] = Tail(@)]
            /\ fback' = [fback EXCEPT ![t] = "loop"]
            /\ fpc' = [fpc EXCEPT ![t] = "deactivate"]
            /\ UNCHANGED current_agents_lock
    /\ UNCHANGED <<current_agents, terminate_signal>>
    /\ UNCHANGED <<memVars, raceVars, storeVars, schedVars, ummVars, execVars, toolVars,
                   writerVars, runVars>>

FactoryInit ==
    /\ current_agents = <<>>
    /\ current_agents_lock = "free"
    /\ terminate_signal = FALSE
    /\ fpc = [t \in FThreads |-> "idle"]
    /\ farg = [t \in FThreads |-> "none"]
    /\ fback = [t \in FThreads |-> "idle"]
    /\ fpending = [t \in FThreads |-> <<>>]

(***************************************************************************)
(* Specifications                                                          *)
(***************************************************************************)
InitMem == MemInit /\ RaceInit /\ StoreIdle /\ SchedIdle /\ UmmInit /\ ExecInit
               /\ ToolInit /\ WriterInit /\ RunInit /\ FactoryInit

NextMem == MemAlloc \/ MemClear

SpecMem == InitMem /\ [][NextMem]_vars

\* one Memory block whose callers clear whatever range they like
NextMemAny == MemAlloc \/ MemClearAny

SpecMemAny == InitMem /\ [][NextMemAny]_vars

InitRace == MemInit /\ RaceInit /\ StoreIdle /\ SchedIdle /\ UmmInit /\ ExecInit
               /\ ToolInit /\ WriterInit /\ RunInit /\ FactoryInit

NextRace == \E t \in Threads : ThreadCall(t) \/ ThreadIterate(t) \/ ThreadCommit(t)

SpecRace == InitRace /\ [][NextRace]_vars

InitStore == MemInit /\ RaceInit /\ StoreInit /\ SchedIdle /\ UmmInit /\ ExecInit
               /\ ToolInit /\ WriterInit /\ RunInit /\ FactoryInit

NextStore == WriteMemory \/ ReadMemory \/ DeleteMemory \/ UpdateMemory \/ Tick

SpecStore == InitStore /\ [][NextStore]_vars

InitSched == MemInit /\ RaceInit /\ StoreIdle /\ SchedInit /\ UmmInit /\ ExecInit
               /\ ToolInit /\ WriterInit /\ RunInit /\ FactoryInit

NextSched ==
    \/ \E r \in Reqs : Construct(r) \/ SetActive(r) \/ StartSyscall(r)
    \/ Start \/ Stop \/ StopReturn
    \/ \E k \in Kinds :
          \/ WTop(k) \/ WGet(k) \/ WSetExecuting(k) \/ WSetStart(k) \/ WCall(k)
          \/ WSetResponse(k) \/ WEventSet(k) \/ WSetDone(k) \/ WSetEnd(k)
          \/ WProcess(k) \/ WPut(k)

SpecSched == InitSched /\ [][NextSched]_vars

\* a worker is a thread of its own: while it has a step to take it takes one
\* (a handler that is called returns or raises)
Worker(k) ==
    \/ WTop(k) \/ WGet(k) \/ WSetExecuting(k) \/ WSetStart(k) \/ WCall(k)
    \/ WSetResponse(k) \/ WEventSet(k) \/ WSetDone(k) \/ WSetEnd(k)
    \/ WProcess(k) \/ WPut(k)

SpecSchedFair ==
    InitSched /\ [][NextSched]_vars /\ \A k \in Kinds : WF_vars(Worker(k))

InitUmm == MemInit /\ RaceInit /\ StoreIdle /\ SchedIdle /\ UmmInit /\ ExecInit
               /\ ToolInit /\ WriterInit /\ RunInit /\ FactoryInit

NextUmm == UmmAlloc \/ UmmClear \/ UmmWrite \/ UmmRead

SpecUmm == InitUmm /\ [][NextUmm]_vars

InitExec == MemInit /\ RaceInit /\ StoreIdle /\ SchedIdle /\ UmmInit /\ ExecInit
               /\ ToolInit /\ WriterInit /\ RunInit /\ FactoryInit

NextExec == \E c \in Callers : XEnter(c) \/ XExecute(c) \/ XFinish(c)

SpecExec == InitExec /\ [][NextExec]_vars

InitTool == MemInit /\ RaceInit /\ StoreIdle /\ SchedIdle /\ UmmInit /\ ExecInit
               /\ ToolInit /\ WriterInit /\ RunInit /\ FactoryInit

NextTool == ToolRequest \/ ClearToolCache

SpecTool == InitTool /\ [][NextTool]_vars

\* one store written by several threads
InitStoreRace == MemInit /\ RaceInit /\ StoreInit /\ SchedIdle /\ UmmInit /\ ExecInit
               /\ ToolInit /\ WriterInit /\ RunInit /\ FactoryInit

NextStoreRace ==
    \/ \E w \in Writers : WriteTest(w)
    \/ \E w \in Writers : WriteEvict(w)
    \/ \E w \in Writers : WriteAssign(w)
    \/ Tick

SpecStoreRace == InitStoreRace /\ [][NextStoreRace]_vars

\* the thread of the memory manager and the callers that feed its queue
InitRun == MemInit /\ RaceInit /\ StoreIdle /\ SchedIdle /\ UmmInit /\ ExecInit
               /\ ToolInit /\ WriterInit /\ RunInit /\ FactoryInit

NextRun == UmmStart \/ UmmStop \/ UmmPut \/ UmmRun \/ UmmRunExit

SpecRun == InitRun /\ [][NextRun]_vars

\* the agent factory and its callers; a thread that can take a step of a call
\* it is in takes it
InitFactory == MemInit /\ RaceInit /\ StoreIdle /\ SchedIdle /\ UmmInit /\ ExecInit
               /\ ToolInit /\ WriterInit /\ RunInit /\ FactoryInit

FStep(t) ==
    FActivateLocked(t) \/ FDeactivateLocked(t) \/ FTerminateAcquire(t) \/ FTerminateNext(t)

NextFactory ==
    \/ \E t \in FThreads : FActivateCall(t)
    \/ \E t \in FThreads : FActivateLocked(t)
    \/ \E t \in FThreads : FDeactivateCall(t)
    \/ \E t \in FThreads : FDeactivateLocked(t)
    \/ \E t \in FThreads : FTerminateCall(t)
    \/ \E t \in FThreads : FTerminateAcquire(t)
    \/ \E t \in FThreads : FTerminateNext(t)

SpecFactory ==
    InitFactory /\ [][NextFactory]_vars /\ \A t \in FThreads : WF_vars(FStep(t))

\* the scheduler with callers that call start() on it while it runs
NextSchedRestart == NextSched \/ StartRunning

SpecSchedRestart == InitSched /\ [][NextSchedRestart]_vars

\* only the worker of the first kind is sure to go on: the handler the other
\* worker called may never return
SpecSchedOne ==
    InitSched /\ [][NextSched]_vars /\ WF_vars(Worker(FirstKind))

\* every handler that is called returns or raises, and the thread that called
\* stop() goes on when its joins can return
SpecSchedStop ==
    InitSched /\ [][NextSched]_vars /\ (\A k \in Kinds : WF_vars(Worker(k)))
              /\ WF_vars(StopReturn)

(***************************************************************************)
(* Properties of one Memory block                                          *)
(***************************************************************************)
RangeSet(b) == b[1] .. b[2]

RangeLen(b) == b[2] - b[1] + 1

RECURSIVE SumFree(_)
SumFree(s) == IF s = <<>> THEN 0 ELSE RangeLen(Head(s)) + SumFree(Tail(s))

RECURSIVE SumLive(_, _)
SumLive(B, S) ==
    IF S = {} THEN 0
    ELSE LET x == CHOOSE y \in S : TRUE
         IN  x[2] * CopiesIn(x, B) + SumLive(B, S \ {x})

FreeDisjoint ==
    \A i, j \in 1 .. Len(free_blocks) :
        i # j => RangeSet(free_blocks[i]) \cap RangeSet(free_blocks[j]) = {}

FreeSorted ==
    \A i \in 1 .. Len(free_blocks) - 1 : free_blocks[i][1] <= free_blocks[i + 1][1]

\* C1: under mem_alloc and mem_clear of ranges that are live, the free ranges
\* are pairwise disjoint and sorted by offset, and free length plus live
\* length is the capacity of the block
C1_FreeListInvariant ==
    /\ FreeDisjoint
    /\ FreeSorted
    /\ SumFree(free_blocks) + SumLive(live, BagToSet(live)) = Capacity

\* C1 witness: a range was released in front of a live one, leaving two
\* free ranges that are not empty
C1_Witness ==
    /\ mem_ret.op = "clear"
    /\ \E i, j \in 1 .. Len(free_blocks) :
          i # j /\ RangeLen(free_blocks[i]) > 0 /\ RangeLen(free_blocks[j]) > 0
    /\ \E x \in BagToSet(live) : x[2] > 0

\* C23 (as specified): whatever the calls, the free ranges do not overlap and do
\* not hold more than the capacity
C23_FreeListAnyCalls ==
    FreeDisjoint /\ SumFree(free_blocks) <= Capacity

\* the ranges of a free list that can hold size bytes
Fitting(free, size) == {i \in 1 .. Len(free) : RangeLen(free[i]) >= size}

\* C16: mem_alloc(size) succeeds exactly when one free range has length >= size,
\* it then returns the start of the lowest such range, and a call that fails
\* leaves the free list as it was, however much the free ranges hold together
C16_FirstFit ==
    [][(mem_ret'.op = "alloc" /\ (mem_ret' # mem_ret \/ live' # live)) =>
          LET size == mem_ret'.size
              F == Fitting(free_blocks, size)
          IN  /\ mem_ret'.ok <=> F # {}
              /\ mem_ret'.ok =>
                    /\ \E i \in F : mem_ret'.addr = free_blocks[i][1]
                    /\ \A i \in F : mem_ret'.addr <= free_blocks[i][1]
              /\ ~mem_ret'.ok => free_blocks' = free_blocks]_vars

\* C16 witness: a call failed although the free ranges together hold at least
\* what it asked for
C16_Witness ==
    /\ mem_ret.op = "alloc" /\ ~mem_ret.ok
    /\ mem_ret.size <= SumFree(free_blocks)
    /\ Len(free_blocks) >= 2
    /\ \A i \in 1 .. Len(free_blocks) : RangeLen(free_blocks[i]) > 0

(***************************************************************************)
(* Properties of concurrent mem_alloc                                      *)
(***************************************************************************)
\* C2: no two mem_alloc calls that returned were given overlapping ranges
\* [start, start + size)
C2_NoOverlap ==
    \A a, b \in returned :
        a # b => (a[3] .. (a[3] + a[4] - 1)) \cap (b[3] .. (b[3] + b[4] - 1)) = {}
(***************************************************************************)
(* Properties of SingleMemoryManager                                       *)
(***************************************************************************)
\* C3: with memory_limit >= 1 and policy LRU or FIFO, memory_store never
\* holds more than memory_limit entries
C3_WithinLimit ==
    (memory_limit >= 1 /\ eviction_k \in {"LRU", "FIFO"})
        => Len(memory_store) <= memory_limit

\* C3 witness: a write into a full store has evicted an entry
C3_Witness ==
    /\ evicted # {}
    /\ Len(memory_store) = memory_limit

\* the entries of store other than the one with this key
Others(store, key) == {store[i] : i \in {j \in 1 .. Len(store) : store[j].key # key}}

\* what a write of a new key into a full store must do: one entry goes, the
\* new one comes, the rest stay as they were; the one that goes has the
\* smallest timestamp (LRU) or entered earliest (FIFO)
EvictsOne(store, after, policy, key) ==
    /\ Len(after) = Len(store)
    /\ key \in StoreKeys(after)
    /\ \E v \in 1 .. Len(store) :
          /\ StoreKeys(after) = (StoreKeys(store) \ {store[v].key}) \cup {key}
          /\ Others(after, key) = Others(store, store[v].key)
          /\ policy = "LRU" =>
                \A j \in 1 .. Len(store) : store[v].timestamp <= store[j].timestamp
          /\ policy = "FIFO" =>
                \A j \in 1 .. Len(store) : store[v].inserted_at <= store[j].inserted_at

\* C4: every step that brings a new key into a store that holds memory_limit
\* entries (a write_memory of a key that is absent: no other request adds a
\* key) removes exactly one entry and adds the new one; the
\* entry removed has the smallest timestamp under LRU and is the one that
\* entered the store earliest under FIFO
C4_EvictionChoice ==
    [][(Len(memory_store) = memory_limit)
          => \A key \in StoreKeys(memory_store') \ StoreKeys(memory_store) :
                EvictsOne(memory_store, memory_store', eviction_k, key)]_vars

\* C4 witness (scenario A): capacity 3, LRU, the write of d evicted a and
\* left b, c, d
C4_Witness ==
    /\ memory_limit = 3
    /\ eviction_k = "LRU"
    /\ evicted = {"a"}
    /\ [i \in 1 .. Len(memory_store) |-> memory_store[i].key] = <<"b", "c", "d">>
\* C19 (as specified): under LRU, read_memory of a present key leaves that entry
\* with the timestamp of the read, as a write would
C19_ReadRefreshes ==
    (eviction_k = "LRU" /\ store_ret.op = "read" /\ store_ret.present)
        => memory_store[IndexOf(memory_store, store_ret.key)].timestamp = now

\* C25 (as specified): write_memory of a key that is in a store holding
\* memory_limit entries leaves the set of keys as it was
C25_WritePresentKeepsKeys ==
    [][\A key \in StoreKeys(memory_store) : \A value \in Values :
          (Len(memory_store) = memory_limit /\ write_memory(key, value))
              => StoreKeys(memory_store') = StoreKeys(memory_store)]_vars

\* what a request that succeeded can return: read_memory, a stored value;
\* delete_memory, what it returns for a key that was there
SuccessResults(op) ==
    IF op = "read" THEN Values ELSE {DeleteResult(<<>>, "none")}

\* C20 (as specified): read_memory or delete_memory of an absent key returns
\* something no successful call returns
C20_NotFoundReported ==
    (store_ret.op \in {"read", "delete"} /\ ~store_ret.present)
        => store_ret.result \notin SuccessResults(store_ret.op)

(***************************************************************************)
(* Properties of the scheduler                                             *)
(***************************************************************************)
SeqRange(q) == {q[i] : i \in 1 .. Len(q)}

IsPrefix(p, q) == Len(p) <= Len(q) /\ SubSeq(q, 1, Len(p)) = p

\* q restricted to the members of S, in q's order
Restrict(q, S) == LET In(x) == x \in S IN SelectSeq(q, In)

InQueue(r) == \E k \in Kinds : r \in SeqRange(queue[k])

\* a worker took r from its queue
Dequeued(r) == cpc[r] = "waiting" /\ ~InQueue(r)

\* a worker took r and has ended the iteration of its loop for r
Finished(r) == Dequeued(r) /\ \A k \in Kinds : wcur[k] # r

\* the lifecycle of section 4.1; "none" is a request not constructed yet, and
\* "active", the status the caller sets as it submits the request, is the
\* code's name for QUEUED
StatusSteps ==
    {<<"none", "created">>, <<"created", "active">>, <<"active", "executing">>,
     <<"executing", "done">>, <<"executing", "failed">>}

\* C5: the status of a request only ever moves one step forward along
\* created, active (queued), executing, then done or failed
C5_StatusPath ==
    [][\A r \in Reqs :
          req'[r].status # req[r].status
              => <<req[r].status, req'[r].status>> \in StatusSteps]_vars

\* C5 witness: one request went all the way to done, another one stays at
\* executing after its handler raised
C5_Witness ==
    \E r, q \in Reqs :
        /\ req[r].status = "done" /\ req[r].end_time
        /\ q \in raised /\ req[q].status = "executing" /\ Finished(q)

\* C6 (as specified): once a queue.py worker is done with a request it took, the
\* completion event of that request is set, whether the handler returned or raised
C6_SignalReleased ==
    impl = "queue" => \A r \in Reqs : Finished(r) => req[r].event

\* C7 (as specified): whenever the completion event of a request is set, its
\* status is terminal and its end time is set
C7_FilledBeforeSignal ==
    \A r \in Reqs :
        req[r].event => (req[r].status \in {"done", "failed"} /\ req[r].end_time)

\* C8 (as specified): a request whose handler raised is FAILED and carries an error
C8_RaiseRecorded ==
    \A r \in raised : req[r].status = "failed" /\ req[r].error # "none"

\* C9: a handler that raises does not end its worker: no worker thread dies,
\* a worker leaves its loop only when active is false, and while the
\* scheduler stays active every queued request is taken and finished
C9_WorkerSurvives ==
    /\ [](\A k \in Kinds : wpc[k] # "dead" /\ (wpc[k] = "exit" => ~active))
    /\ \A r \in Reqs : (InQueue(r) /\ active) ~> (Finished(r) \/ ~active)

\* C9 witness: a request raised, and a later request of the same kind was
\* processed to the end
C9_Witness ==
    \E r, q \in Reqs :
        /\ r < q /\ req[r].kind = req[q].kind
        /\ r \in raised /\ q \notin raised /\ Finished(q)
        /\ (impl = "queue" => req[q].status = "done" /\ req[q].end_time)
        /\ (impl = "base" => q \in SeqRange(response_queue[req[q].kind]))

\* C10: within a kind, requests are taken in the order they were enqueued, and
\* they are set done (queue.py) and their responses are published (base.py)
\* in that order
C10_FifoOrder ==
    \A k \in Kinds :
        /\ IsPrefix(startLog[k], enqLog[k])
        /\ doneLog[k] = Restrict(enqLog[k], SeqRange(doneLog[k]))
        /\ response_queue[k] = Restrict(enqLog[k], SeqRange(response_queue[k]))

\* C10 witness (scenario C): three requests of one kind, enqueued as 1, 2, 3,
\* were completed as 1, 2, 3
C10_Witness ==
    \E k \in Kinds :
        /\ enqLog[k] = <<1, 2, 3>>
        /\ doneLog[k] = <<1, 2, 3>>

\* C11: the worker of one kind goes on whatever the worker of the other kind
\* does: with the other worker free to stay inside its handler for ever, or
\* back from a handler that raised, every queued request of the first kind is
\* still taken and finished while the scheduler stays active
C11_KindsIndependent ==
    \A r \in Reqs :
        (InQueue(r) /\ req[r].kind = FirstKind /\ active) ~> (Finished(r) \/ ~active)

\* C11 witness: a request of the first kind, submitted after a request that
\* the other worker still has inside its handler, was processed to the end;
\* and the same after a request of the other kind raised
C11_Witness ==
    \E k \in Kinds \ {FirstKind} : \E r, q \in Reqs :
        /\ q < r /\ req[q].kind = k /\ req[r].kind = FirstKind
        /\ wcur[k] = q /\ wpc[k] \in {"call", "process"}
        /\ Finished(r) /\ r \notin raised
        /\ raised # {} /\ \A x \in raised : req[x].kind = k

\* C12 (as specified): a request whose status is terminal has its start time and
\* its end time set, so that its waiting and turnaround times are defined
C12_TimesOnceTerminal ==
    \A r \in Reqs :
        req[r].status \in {"done", "failed"} => (req[r].start_time /\ req[r].end_time)

\* C13: once stop() has cleared the flag, every worker leaves its loop and
\* stop() returns
C13_StopReturns ==
    (stopper = "joining") ~> (stopper = "returned" /\ \A k \in Kinds : wpc[k] = "exit")

\* C13 witness: stop() returned on a scheduler whose workers had requests to
\* handle, one of them taken before the flag was cleared and still in hand
\* when stop() was called
C13_Witness ==
    /\ stopper = "returned"
    /\ \A k \in Kinds : wpc[k] = "exit"
    /\ \E r \in Reqs : Finished(r)
    /\ \E r \in Reqs : InQueue(r)

\* C14 (as specified): once the active flag is cleared, no request leaves a queue
C14_NoDequeueAfterStop ==
    [][~active => \A k \in Kinds : Len(queue'[k]) >= Len(queue[k])]_vars

\* C15: start() on a running scheduler ends in an error and changes nothing:
\* the flag stays true and every worker thread is where it was
C15_SecondStartFails ==
    [][StartRunning =>
          /\ start_ret' = "RuntimeError"
          /\ active'
          /\ wpc' = wpc /\ wcur' = wcur /\ queue' = queue /\ req' = req]_vars

\* C15 witness: start() failed while a worker was inside its handler
C15_Witness ==
    /\ start_ret = "RuntimeError"
    /\ active
    /\ \E k \in Kinds : wpc[k] \in {"call", "process"} /\ wcur[k] # 0

(***************************************************************************)
(* Properties of UniformedMemoryManager                                    *)
(***************************************************************************)
\* C17 (as specified): mem_write for an agent whose mem_alloc succeeded returns,
\* having recorded what it wrote, so that mem_read can return those bytes
C17_WriteAfterAlloc ==
    (umm_ret.op = "write" /\ umm_ret.held # NoRecord) => umm_ret.error = "none"

\* C18 (as specified): mem_alloc for an agent that holds an allocation fails with
\* AllocationConflict and leaves the record of the agent as it was
C18_AllocConflict ==
    (umm_ret.op = "alloc" /\ umm_ret.held # NoRecord)
        => (umm_ret.error = "AllocationConflict" /\ aid_to_memory[umm_ret.agent] = umm_ret.held)

\* the bytes of a free list
FreeBytes(free) == UNION {RangeSet(free[i]) : i \in 1 .. Len(free)}

\* C21 (as specified): after mem_clear(agent_id) the record of the agent is gone,
\* its block id is in the heap again and the bytes it held are free again in
\* that block
C21_ClearRestores ==
    (umm_ret.op = "clear" /\ umm_ret.error = "none") =>
        /\ aid_to_memory[umm_ret.agent] = NoRecord
        /\ umm_ret.held.memory_block_id \in SeqRange(free_memory_blocks)
        /\ umm_ret.held.address .. (umm_ret.held.address + umm_ret.held.size - 1)
              \subseteq FreeBytes(memory_blocks[umm_ret.held.memory_block_id])

\* how often block id b is in the heap, and how many records name it
InHeap(b) == Cardinality({i \in 1 .. Len(free_memory_blocks) : free_memory_blocks[i] = b})

InRecords(b) == Cardinality({a \in Agents : aid_to_memory[a].memory_block_id = b})

\* C22 (as specified): every block id is in the heap once or in one record, never
\* both and never neither
C22_BlockAccounted ==
    \A b \in BlockIds : InHeap(b) + InRecords(b) = 1

(***************************************************************************)
(* Properties of SyscallExecutor                                           *)
(***************************************************************************)
\* C27 (as specified): the syscall layer executes a request at most once
C27_ExecutedOnce ==
    \A c \in Callers : xcalls[c] <= 1

\* C28 (as specified): a request is rejected only when CONCURRENCY_LIMIT requests
\* are in flight
C28_RejectsAtLimit ==
    \A c \in Callers :
        xret[c].kind = "Concurrency limit reached" => xret[c].in_flight >= CONCURRENCY_LIMIT

(***************************************************************************)
(* Properties of ToolManager                                               *)
(***************************************************************************)
\* C29 (as specified): when address_request has returned after the tool ran,
\* failed to load or raised, the tool is not in tool_conflict_map
C29_ConflictCleared ==
    tool_ret.answer \in {"result", "Failed to load tool", "Tool calling error"}
        => tool_ret.tool \notin tool_conflict_map

(***************************************************************************)
(* Properties of the store under concurrent callers, of the memory         *)
(* manager's thread and of the agent factory                               *)
(***************************************************************************)
\* C24 (as specified): with two or more callers inside write_memory at once,
\* the store never holds more than memory_limit entries
C24_ConcurrentWithinLimit == Len(memory_store) <= memory_limit

\* C26 (as specified): while active is true the thread of the memory manager
\* is alive, whatever the requests it has taken did
C26_RunLoopSurvives == umm_active => umm_thread = "alive"

\* C30 (as specified): a thread that has called terminate() gets back from it
C30_TerminateReturns ==
    \A t \in FThreads : (fpc[t] = "terminate") ~> (fpc[t] = "idle")
====
